---- MODULE Spec2Model ----
(***************************************************************************)
(* A model of fakeldap.MockLDAP (src/fakeldap.py): the call ledger         *)
(* (self.calls), the preset table (self.return_value_maps) and the         *)
(* directory store (self.directory) with the emulated LDAP operations.     *)
(*                                                                         *)
(* Python strings are sequences of one-character strings, so that          *)
(* str.lower, str.split, str.strip, str.endswith, the substring test of    *)
(* `in` and the regular expression of _search_s are computed on the        *)
(* characters.  Python values are records of one shape, tagged by t.       *)
(***************************************************************************)
EXTENDS Integers, Sequences, FiniteSets, TLC

\* ------------------------------------------------------------------------
\* Python values
\* ------------------------------------------------------------------------

\* An attribute dictionary with no key ({}).
EmptyDict == [k \in {} |-> 0]

PyValue(t, s, n, items, d) == [t |-> t, s |-> s, n |-> n, items |-> items, d |-> d]

PyNone == PyValue("none", <<>>, 0, <<>>, EmptyDict)
PyStr(s) == PyValue("str", s, 0, <<>>, EmptyDict)
PyInt(n) == PyValue("int", <<>>, n, <<>>, EmptyDict)
PyList(items) == PyValue("list", <<>>, 0, items, EmptyDict)
PyTuple(items) == PyValue("tuple", <<>>, 0, items, EmptyDict)
PyDict(d) == PyValue("dict", <<>>, 0, <<>>, d)
\* sys.stdout, the default trace_file of initialize
PyFile == PyValue("file", <<>>, 0, <<>>, EmptyDict)
\* the MockLDAP instance itself (initialize returns self)
PySelf == PyValue("self", <<>>, 0, <<>>, EmptyDict)
\* an exception instance; s holds the class name as its only element
PyExc(name) == PyValue("exc", <<name>>, 0, <<>>, EmptyDict)

\* isinstance(value, list)
IsList(v) == v.t = "list"

\* Python's == on the values of the model (a list never equals a tuple or a
\* string; the tag is compared first).
PyEq(a, b) == a.t = b.t /\ a = b

\* ------------------------------------------------------------------------
\* str methods
\* ------------------------------------------------------------------------

Upper == <<"A","B","C","D","E","F","G","H","I","J","K","L","M",
           "N","O","P","Q","R","S","T","U","V","W","X","Y","Z">>
Lower == <<"a","b","c","d","e","f","g","h","i","j","k","l","m",
           "n","o","p","q","r","s","t","u","v","w","x","y","z">>
Digit == <<"0","1","2","3","4","5","6","7","8","9">>

Range(f) == {f[i] : i \in DOMAIN f}

\* The characters \w matches (ASCII).
WordChars == Range(Upper) \cup Range(Lower) \cup Range(Digit) \cup {"_"}

LowerChar(c) ==
    IF c \in Range(Upper)
    THEN Lower[CHOOSE i \in DOMAIN Upper : Upper[i] = c]
    ELSE c

\* s.lower()
StrLower(s) == [i \in DOMAIN s |-> LowerChar(s[i])]

\* s.endswith(suffix)
EndsWith(s, suffix) ==
    /\ Len(suffix) <= Len(s)
    /\ SubSeq(s, Len(s) - Len(suffix) + 1, Len(s)) = suffix

\* sub in s, for two strings: sub occurs in s as a substring.
Substring(sub, s) ==
    \E i \in 1..(Len(s) + 1) :
        /\ i + Len(sub) - 1 <= Len(s)
        /\ SubSeq(s, i, i + Len(sub) - 1) = sub

\* s.strip(chars): the characters of chars are removed from both ends of s,
\* as a set of characters, not as a prefix or suffix.
StrStrip(s, chars) ==
    LET cs == Range(chars)
        keep == {i \in DOMAIN s : s[i] \notin cs}
        Min(S) == CHOOSE x \in S : \A y \in S : x <= y
        Max(S) == CHOOSE x \in S : \A y \in S : y <= x
    IN IF keep = {} THEN <<>> ELSE SubSeq(s, Min(keep), Max(keep))

\* s.split(sep) for a one-character separator: the pieces between the
\* occurrences of sep (n occurrences give n + 1 pieces).
RECURSIVE StrSplit(_, _)
StrSplit(s, sep) ==
    IF \A i \in DOMAIN s : s[i] # sep
    THEN <<s>>
    ELSE LET i == CHOOSE j \in DOMAIN s :
                      s[j] = sep /\ \A k \in 1..(j - 1) : s[k] # sep
         IN <<SubSeq(s, 1, i - 1)>> \o StrSplit(SubSeq(s, i + 1, Len(s)), sep)

\* sep.join(pieces)
RECURSIVE StrJoin(_, _)
StrJoin(sep, pieces) ==
    IF pieces = <<>> THEN <<>>
    ELSE IF Len(pieces) = 1 THEN pieces[1]
    ELSE pieces[1] \o <<sep>> \o StrJoin(sep, Tail(pieces))

\* b'%d' % n: the decimal digits of n >= 0
RECURSIVE Decimal(_)
Decimal(n) ==
    IF n < 10 THEN <<Digit[n + 1]>>
    ELSE Decimal(n \div 10) \o <<Digit[(n % 10) + 1]>>

\* ------------------------------------------------------------------------
\* json.dumps(arguments, cls=BytesDump)
\* ------------------------------------------------------------------------

\* Whether json.dumps accepts the value: None, strings, bytes (BytesDump
\* decodes them), numbers, lists, tuples and dictionaries of such values.
\* Anything else (sys.stdout, an exception, an object) is a TypeError.
RECURSIVE Serializable(_)
Serializable(v) ==
    CASE v.t \in {"none", "str", "bytes", "int"} -> TRUE
      [] v.t \in {"list", "tuple"} ->
            \A i \in DOMAIN v.items : Serializable(v.items[i])
      [] v.t = "dict" -> \A k \in DOMAIN v.d : Serializable(v.d[k])
      [] OTHER -> FALSE

\* JsonDumps telling a tuple from a list, as repr() does
RECURSIVE JsonDumps_KeepsKind(_)
JsonDumps_KeepsKind(v) ==
    CASE v.t = "none" -> [j |-> "null", s |-> <<>>, n |-> 0, items |-> <<>>, d |-> EmptyDict]
      [] v.t \in {"str", "bytes"} ->
            [j |-> "string", s |-> v.s, n |-> 0, items |-> <<>>, d |-> EmptyDict]
      [] v.t = "int" -> [j |-> "number", s |-> <<>>, n |-> v.n, items |-> <<>>, d |-> EmptyDict]
      [] v.t \in {"list", "tuple"} ->
            [j |-> v.t, s |-> <<>>, n |-> 0,
             items |-> [i \in DOMAIN v.items |-> JsonDumps_KeepsKind(v.items[i])],
             d |-> EmptyDict]
      [] OTHER ->
            [j |-> "object", s |-> <<>>, n |-> 0, items |-> <<>>,
             d |-> [k \in DOMAIN v.d |-> JsonDumps_KeepsKind(v.d[k])]]

\* The JSON text, as the tree it denotes: a list and a tuple both become an
\* array, bytes become the string they decode to.
RECURSIVE JsonDumps(_)
JsonDumps(v) ==
    CASE v.t = "none" -> [j |-> "null", s |-> <<>>, n |-> 0, items |-> <<>>, d |-> EmptyDict]
      [] v.t \in {"str", "bytes"} ->
            [j |-> "string", s |-> v.s, n |-> 0, items |-> <<>>, d |-> EmptyDict]
      [] v.t = "int" -> [j |-> "number", s |-> <<>>, n |-> v.n, items |-> <<>>, d |-> EmptyDict]
      [] v.t \in {"list", "tuple"} ->
            [j |-> "array", s |-> <<>>, n |-> 0,
             items |-> [i \in DOMAIN v.items |-> JsonDumps(v.items[i])],
             d |-> EmptyDict]
      [] OTHER ->
            [j |-> "object", s |-> <<>>, n |-> 0, items |-> <<>>,
             d |-> [k \in DOMAIN v.d |-> JsonDumps(v.d[k])]]

\* ------------------------------------------------------------------------
\* Outcomes of a call
\* ------------------------------------------------------------------------

Return(v) == [kind |-> "return", value |-> v]
\* raise e, e an exception instance
RaiseValue(e) == [kind |-> "raise", value |-> e]
Raise(name) == RaiseValue(PyExc(name))

Raised(out, name) == out.kind = "raise" /\ out.value = PyExc(name)

\* ------------------------------------------------------------------------
\* self.directory: a dict (insertion-ordered) from dn to attribute dict,
\* a sequence of [dn, attrs] in insertion order.  Attribute dicts are
\* functions from attribute name to value.
\* ------------------------------------------------------------------------

Index(dir, dn) ==
    IF \E i \in DOMAIN dir : dir[i].dn = dn
    THEN CHOOSE i \in DOMAIN dir : dir[i].dn = dn
    ELSE 0

Has(dir, dn) == Index(dir, dn) # 0

\* the keys of the dict
Keys(dir) == {dir[i].dn : i \in DOMAIN dir}

\* dir[dn], for a key that is present
Entry(dir, dn) == dir[Index(dir, dn)].attrs

\* dir[dn] = attrs: an existing key keeps its place, a new one goes last
SetItem(dir, dn, attrs) ==
    IF Has(dir, dn)
    THEN [dir EXCEPT ![Index(dir, dn)].attrs = attrs]
    ELSE Append(dir, [dn |-> dn, attrs |-> attrs])

\* del dir[dn], for a key that is present
DelItem(dir, dn) ==
    LET i == Index(dir, dn)
    IN SubSeq(dir, 1, i - 1) \o SubSeq(dir, i + 1, Len(dir))

\* The dict as a mapping: dict equality does not look at the order.
AsMap(dir) == [dn \in Keys(dir) |-> Entry(dir, dn)]

\* self.directory[dn].  A plain dict (a non-empty directory was given to
\* __init__) raises KeyError for a missing key; the defaultdict (no or an
\* empty directory was given) stores {} under the key and returns it.
GetItem(dir, isDefault, dn) ==
    IF Has(dir, dn) THEN [ok |-> TRUE, dir |-> dir, attrs |-> Entry(dir, dn)]
    ELSE IF isDefault
         THEN [ok |-> TRUE, dir |-> SetItem(dir, dn, EmptyDict), attrs |-> EmptyDict]
         ELSE [ok |-> FALSE, dir |-> dir, attrs |-> EmptyDict]

\* entry[key] = value on an attribute dict
DictSet(attrs, key, value) ==
    [k \in DOMAIN attrs \cup {key} |-> IF k = key THEN value ELSE attrs[k]]

\* del entry[key]
DictDel(attrs, key) == [k \in DOMAIN attrs \ {key} |-> attrs[k]]

\* ------------------------------------------------------------------------
\* Program constants
\* ------------------------------------------------------------------------

SCOPE_BASE == 0
SCOPE_ONELEVEL == 1
SCOPE_SUBTREE == 2

MOD_ADD == 0
MOD_DELETE == 1
MOD_REPLACE == 2

\* ldap.RES_ANY, the default msgid of result3, and ldap.RES_SEARCH_RESULT
RES_ANY == -1
RES_SEARCH_RESULT == 101

\* 'userPassword'
userPassword == <<"u","s","e","r","P","a","s","s","w","o","r","d">>
\* '(objectClass=*)'
DefaultFilter == <<"(","o","b","j","e","c","t","C","l","a","s","s","=","*",")">>
\* 'search:'
SearchPrefix == <<"s","e","a","r","c","h",":">>

\* ------------------------------------------------------------------------
\* Internal implementations.  Each gives the directory after it ran and its
\* outcome: [dir, out].
\* ------------------------------------------------------------------------

\* value in row.  A string row is searched for the substring value; a list
\* or tuple row for an equal element.  "TypeError" where Python raises it.
PyIn(value, row) ==
    CASE row.t = "str" ->
            IF value.t = "str"
            THEN (IF Substring(value.s, row.s) THEN "true" ELSE "false")
            ELSE "TypeError"
      [] row.t \in {"list", "tuple"} ->
            IF \E i \in DOMAIN row.items : PyEq(row.items[i], value)
            THEN "true" ELSE "false"
      [] OTHER -> "TypeError"

\* _compare_s(dn, attr, value): dn and attr are strings, value any value.
\* A KeyError of either lookup is caught and means "not found".
CompareS(dir, isDefault, dn, attr, value) ==
    LET g == GetItem(dir, isDefault, dn)
        found == IF g.ok /\ attr \in DOMAIN g.attrs
                 THEN PyIn(value, g.attrs[attr])
                 ELSE "false"
    IN [dir |-> g.dir,
        out |-> CASE found = "true" -> Return(PyInt(1))
                  [] found = "false" -> Return(PyInt(0))
                  [] OTHER -> Raise("TypeError")]

\* (97, [])
BindSuccess == PyTuple(<<PyInt(97), PyList(<<>>)>>)

\* _simple_bind_s(who, cred), who and cred strings
SimpleBindS(dir, isDefault, who, cred) ==
    IF who = <<>> /\ cred = <<>>
    THEN [dir |-> dir, out |-> Return(BindSuccess)]
    ELSE LET c == CompareS(dir, isDefault, StrLower(who), userPassword, PyStr(cred))
         IN [dir |-> c.dir,
             out |-> IF c.out.kind = "raise" THEN c.out
                     ELSE IF c.out.value = PyInt(1) THEN Return(BindSuccess)
                     ELSE Raise("INVALID_CREDENTIALS")]

\* _mangle_record(record): a tuple of (key, value) tuples, a list value made
\* a tuple.
MangleRecord(record) ==
    PyTuple([i \in DOMAIN record.items |->
        LET key == record.items[i].items[1]
            value == record.items[i].items[2]
        IN PyTuple(<<key, IF IsList(value) THEN PyTuple(value.items) ELSE value>>)])

\* entry = {}; for item in record: entry[item[0]] = item[1]
RECURSIVE RecordEntry(_, _)
RecordEntry(items, attrs) ==
    IF items = <<>> THEN attrs
    ELSE RecordEntry(Tail(items),
                     DictSet(attrs, Head(items).items[1].s, Head(items).items[2]))

\* (105, [], len(self.calls), [])
AddSuccess(n) == PyTuple(<<PyInt(105), PyList(<<>>), PyInt(n), PyList(<<>>)>>)

\* AddS taking the KeyError test for granted: the entry is stored before the
\* dn is looked up.
AddS_StoreFirst(dir, isDefault, dn, record, ncalls) ==
    LET g == GetItem(dir, isDefault, dn)
        stored == SetItem(g.dir, dn, RecordEntry(record.items, EmptyDict))
    IN IF g.ok
       THEN [dir |-> stored, out |-> Raise("ALREADY_EXISTS")]
       ELSE [dir |-> stored, out |-> Return(AddSuccess(ncalls))]

\* _add_s(dn, record), ncalls = len(self.calls).  ALREADY_EXISTS is raised
\* when self.directory[dn] raises no KeyError.
AddS(dir, isDefault, dn, record, ncalls) ==
    LET g == GetItem(dir, isDefault, dn)
    IN IF g.ok
       THEN [dir |-> g.dir, out |-> Raise("ALREADY_EXISTS")]
       ELSE [dir |-> SetItem(dir, dn, RecordEntry(record.items, EmptyDict)),
             out |-> Return(AddSuccess(ncalls))]

\* (107, [])
DeleteSuccess == PyTuple(<<PyInt(107), PyList(<<>>)>>)

\* _delete_s(dn): del raises KeyError for a missing key of a defaultdict too.
DeleteS(dir, dn) ==
    IF Has(dir, dn)
    THEN [dir |-> DelItem(dir, dn), out |-> Return(DeleteSuccess)]
    ELSE [dir |-> dir, out |-> Raise("NO_SUCH_OBJECT")]

\* a is b.  None is one object; whether two equal strings (or numbers) are
\* one object is up to the interpreter (interning), so the caller says it:
\* interned.  A list given in the call is never an object of the store.
PyIs(a, b, interned) ==
    /\ PyEq(a, b)
    /\ \/ a.t = "none"
       \/ a.t \in {"str", "int"} /\ interned

\* for i in range(len(row)): if value is row[i]: del row[i]
\* n is len(row) before the loop; the list shrinks under the loop, and
\* row[i] past its end is an IndexError.
RECURSIVE DeleteLoop(_, _, _, _, _)
DeleteLoop(row, value, i, n, interned) ==
    IF i > n THEN [row |-> row, ok |-> TRUE]
    ELSE IF i > Len(row) THEN [row |-> row, ok |-> FALSE]
    ELSE IF PyIs(value, row[i], interned)
         THEN DeleteLoop(SubSeq(row, 1, i - 1) \o SubSeq(row, i + 1, Len(row)),
                         value, i + 1, n, interned)
         ELSE DeleteLoop(row, value, i + 1, n, interned)

\* (103, [])
ModifySuccess == PyTuple(<<PyInt(103), PyList(<<>>)>>)

\* The loop of _modify_s over mod_attrs; entry is the dict stored under dn,
\* so every change is a change of the store at once.
RECURSIVE ModifyLoop(_, _, _, _)
ModifyLoop(dir, dn, items, interned) ==
    IF items = <<>> THEN [dir |-> dir, out |-> Return(ModifySuccess)]
    ELSE
    LET op == Head(items).items[1].n
        key == Head(items).items[2]
        value == Head(items).items[3]
        entry == Entry(dir, dn)
    IN CASE op = MOD_ADD ->
              \* key.append(value): key is the attribute name
              IF IsList(key)
              THEN ModifyLoop(dir, dn, Tail(items), interned)
              ELSE [dir |-> dir, out |-> Raise("AttributeError")]
         [] op = MOD_DELETE ->
              IF key.s \notin DOMAIN entry
              THEN [dir |-> dir, out |-> Raise("KeyError")]
              ELSE LET row == entry[key.s] IN
                   IF IsList(row)
                   THEN LET r == DeleteLoop(row.items, value, 1, Len(row.items), interned)
                            dir2 == SetItem(dir, dn, DictSet(entry, key.s, PyList(r.row)))
                        IN IF r.ok
                           THEN ModifyLoop(dir2, dn, Tail(items), interned)
                           ELSE [dir |-> dir2, out |-> Raise("IndexError")]
                   ELSE ModifyLoop(SetItem(dir, dn, DictDel(entry, key.s)),
                                   dn, Tail(items), interned)
         [] op = MOD_REPLACE ->
              ModifyLoop(SetItem(dir, dn, DictSet(entry, key.s, value)),
                         dn, Tail(items), interned)
         [] OTHER -> ModifyLoop(dir, dn, Tail(items), interned)

\* _modify_s(dn, mod_attrs)
ModifyS(dir, isDefault, dn, mod_attrs, interned) ==
    LET g == GetItem(dir, isDefault, dn)
    IN IF ~g.ok
       THEN [dir |-> dir, out |-> Raise("NO_SUCH_OBJECT")]
       ELSE ModifyLoop(g.dir, dn, mod_attrs.items, interned)

\* not superior: None and '' are false
Falsy(v) == v.t = "none" \/ (v.t = "str" /\ v.s = <<>>)

\* (109, [])
RenameSuccess == PyTuple(<<PyInt(109), PyList(<<>>)>>)

\* _rename_s(dn, newrdn, superior): dn and newrdn strings, superior None or
\* a string.
RenameS(dir, isDefault, dn, newrdn, superior) ==
    LET g == GetItem(dir, isDefault, dn)
        basedn == IF Falsy(superior)
                  THEN StrJoin(",", Tail(StrSplit(dn, ",")))
                  ELSE superior.s
        newdn == newrdn \o <<",">> \o basedn
        parts == StrSplit(newrdn, "=")
    IN IF ~g.ok
       THEN [dir |-> dir, out |-> Raise("NO_SUCH_OBJECT")]
       ELSE IF Len(parts) # 2
       THEN \* attr, value = newrdn.split('=')
            [dir |-> g.dir, out |-> Raise("ValueError")]
       ELSE LET entry == DictSet(g.attrs, parts[1], PyStr(parts[2]))
                d1 == SetItem(g.dir, dn, entry)
                d2 == SetItem(d1, newdn, entry)
            IN [dir |-> DelItem(d2, dn), out |-> Return(RenameSuccess)]

\* re.compile(r"\(\w+=.+\)$").match(filterstr): "(", one or more word
\* characters, "=", one or more characters, ")" at the end.  (No character
\* of the model is a line break.)
SimpleQueryMatch(f) ==
    /\ Len(f) >= 5
    /\ f[1] = "("
    /\ f[Len(f)] = ")"
    /\ \E k \in 2..(Len(f) - 3) :
          /\ \A i \in 2..k : f[i] \in WordChars
          /\ f[k + 1] = "="

\* _simple_onelevel_search(base, filterstr): the entries of the store, in
\* its order, that pass the tests of the loop.
OneLevelMatch(dn, attrs, base, name, value) ==
    /\ EndsWith(dn, <<",">> \o base)
    /\ "," \notin Range(StrStrip(dn, <<",">> \o base))
    /\ name \in DOMAIN attrs
    /\ \/ PyEq(attrs[name], PyStr(value))
       \/ /\ IsList(attrs[name])
          /\ Len(attrs[name].items) = 1
          /\ PyEq(attrs[name].items[1], PyStr(value))

RECURSIVE OneLevelLoop(_, _, _, _)
OneLevelLoop(dir, base, name, value) ==
    IF dir = <<>> THEN <<>>
    ELSE (IF OneLevelMatch(Head(dir).dn, Head(dir).attrs, base, name, value)
          THEN <<PyTuple(<<PyStr(Head(dir).dn), PyDict(Head(dir).attrs)>>)>>
          ELSE <<>>)
         \o OneLevelLoop(Tail(dir), base, name, value)

SimpleOnelevelSearch(dir, base, filterstr) ==
    LET parts == StrSplit(SubSeq(filterstr, 2, Len(filterstr) - 1), "=")
    IN IF Len(parts) # 2
       THEN \* search_attr_name, search_attr_value = ....split('=')
            Raise("ValueError")
       ELSE Return(PyList(OneLevelLoop(dir, base, parts[1], parts[2])))

\* _search_s(base, scope, filterstr, attrlist, attrsonly); it reads the
\* store with get() and items(), which store nothing.
SearchS(dir, base, scope, filterstr) ==
    CASE scope = SCOPE_BASE ->
            IF filterstr # DefaultFilter THEN Raise("PresetReturnRequiredError")
            ELSE IF ~Has(dir, base) THEN Raise("NO_SUCH_OBJECT")
            ELSE Return(PyList(<<PyTuple(<<PyStr(base), PyDict(Entry(dir, base))>>)>>))
      [] scope = SCOPE_ONELEVEL ->
            IF ~SimpleQueryMatch(filterstr) THEN Raise("PresetReturnRequiredError")
            ELSE SimpleOnelevelSearch(dir, base, filterstr)
      [] OTHER ->
            \* self.directory.get(f'search:{filterstr}', [])
            IF Has(dir, SearchPrefix \o filterstr)
            THEN Return(PyDict(Entry(dir, SearchPrefix \o filterstr)))
            ELSE Return(PyList(<<>>))

\* ------------------------------------------------------------------------
\* State
\* ------------------------------------------------------------------------

VARIABLES
    directory,          \* self.directory
    isDefault,          \* self.directory is the defaultdict of __init__
    calls,              \* self.calls: the api names, in order
    return_value_maps,  \* self.return_value_maps: api -> (args_str -> value)
    options,            \* self.options
    tls_enabled,        \* self.tls_enabled
    cookie,             \* self.cookie
    async_results,      \* self._async_results: msgid -> {'ctrls', 'data'}
    control_cookie,     \* the cookie attribute of the caller's paging control
    peer,               \* a second MockLDAP built from the mapping the first was
                        \* given: its directory, calls and return_value_maps
    aliased,            \* the two were given one mapping object, not two equal ones
    history,            \* history: the operations invoked, in order
    last                \* history: the last call, the store before it, its outcome

vars == <<directory, isDefault, calls, return_value_maps, options, tls_enabled,
          cookie, async_results, control_cookie, peer, aliased, history, last>>

\* ------------------------------------------------------------------------
\* Bounds
\* ------------------------------------------------------------------------

\* operations invoked on the instance (reset and set_return_value included)
MaxCalls == 3

\* ------------------------------------------------------------------------
\* The preset table
\* ------------------------------------------------------------------------

\* the presets of one api (the inner dict; {} when the api has none)
PresetsOf(maps, api) == IF api \in DOMAIN maps THEN maps[api] ELSE EmptyDict

\* set_return_value(api_name, arguments, value): the table after it, or the
\* TypeError of json.dumps.
SetReturnValue(maps, api_name, arguments, value) ==
    IF ~Serializable(arguments)
    THEN [maps |-> maps, out |-> Raise("TypeError")]
    ELSE LET inner == PresetsOf(maps, api_name)
             args_str == JsonDumps(arguments)
             inner2 == [k \in DOMAIN inner \cup {args_str} |->
                           IF k = args_str THEN value ELSE inner[k]]
         IN [maps |-> [a \in DOMAIN maps \cup {api_name} |->
                          IF a = api_name THEN inner2 ELSE maps[a]],
             out |-> Return(PyNone)]

\* _get_return_value(api_name, arguments): the table after the lookup (the
\* defaultdict stores {} for an api it is asked about) and the outcome: the
\* preset returned or raised, None returned when there is none.
GetReturnValue(maps, api_name, arguments) ==
    IF ~Serializable(arguments)
    THEN [maps |-> maps, out |-> Raise("TypeError")]
    ELSE LET inner == PresetsOf(maps, api_name)
             args_str == JsonDumps(arguments)
             value == IF args_str \in DOMAIN inner THEN inner[args_str] ELSE PyNone
         IN [maps |-> [a \in DOMAIN maps \cup {api_name} |->
                          IF a = api_name THEN inner ELSE maps[a]],
             out |-> IF value.t = "exc" THEN RaiseValue(value) ELSE Return(value)]

\* A preset is registered for the call api(*args): set_return_value was
\* given the tuple of the call's arguments.
Registered(maps, api, args) ==
    /\ Serializable(args)
    /\ JsonDumps(args) \in DOMAIN PresetsOf(maps, api)

\* the value registered for the call api(*args), None when there is none
PresetFor(maps, api, args) ==
    IF Registered(maps, api, args) THEN PresetsOf(maps, api)[JsonDumps(args)] ELSE PyNone

\* value is None
IsNone(out) == out.kind = "return" /\ out.value = PyNone

\* ------------------------------------------------------------------------
\* Public operations
\* ------------------------------------------------------------------------

\* What every call leaves behind.  recorded: _record_call ran.
Finish(op, args, recorded, found, dir2, maps2, out) ==
    /\ directory' = dir2
    /\ peer' = IF aliased THEN [peer EXCEPT !.directory = dir2] ELSE peer
    /\ aliased' = aliased
    /\ return_value_maps' = maps2
    /\ calls' = IF recorded THEN Append(calls, op) ELSE calls
    /\ history' = Append(history, op)
    /\ last' = [op |-> op, args |-> args, before |-> directory,
                registered |-> Registered(return_value_maps, op, args),
                preset |-> PresetFor(return_value_maps, op, args),
                found |-> found, out |-> out]

\* _record_call, then value = self._get_return_value(api, lookup), then
\* "if value is None: value = <the internal implementation>", impl.
\* args is the tuple of the call's arguments, lookup what the operation
\* hands to _get_return_value.
Resolve(api, args, lookup, impl) ==
    LET r == GetReturnValue(return_value_maps, api, lookup)
    IN IF IsNone(r.out)
       THEN Finish(api, args, TRUE, FALSE, impl.dir, r.maps, impl.out)
       ELSE Finish(api, args, TRUE, r.out # Raise("TypeError"),
                   directory, r.maps, r.out)

CanCall == Len(history) < MaxCalls

set_option(option, invalue) ==
    /\ CanCall
    /\ options' = [o \in DOMAIN options \cup {option} |->
                      IF o = option THEN invalue ELSE options[o]]
    /\ Finish("set_option", PyTuple(<<PyInt(option), PyInt(invalue)>>), TRUE, FALSE,
              directory, return_value_maps, Return(PyNone))
    /\ UNCHANGED <<isDefault, tls_enabled, cookie, async_results, control_cookie>>

\* initialize(uri, trace_level=0, trace_file=sys.stdout, trace_stack_limit=None)
initialize(uri, trace_file) ==
    /\ CanCall
    /\ LET args == PyTuple(<<PyStr(uri), PyInt(0), trace_file, PyNone>>)
       IN Resolve("initialize", args, args,
                  [dir |-> directory, out |-> Return(PySelf)])
    /\ UNCHANGED <<isDefault, options, tls_enabled, cookie, async_results, control_cookie>>

simple_bind_s(who, cred) ==
    /\ CanCall
    /\ LET args == PyTuple(<<PyStr(who), PyStr(cred)>>)
       IN Resolve("simple_bind_s", args, args,
                  SimpleBindS(directory, isDefault, who, cred))
    /\ UNCHANGED <<isDefault, options, tls_enabled, cookie, async_results, control_cookie>>

\* search_s(base, scope, filterstr, attrlist=None, attrsonly=0)
search_s(base, scope, filterstr) ==
    /\ CanCall
    /\ LET args == PyTuple(<<PyStr(base), PyInt(scope), PyStr(filterstr), PyNone, PyInt(0)>>)
       IN Resolve("search_s", args, args,
                  [dir |-> directory, out |-> SearchS(directory, base, scope, filterstr)])
    /\ UNCHANGED <<isDefault, options, tls_enabled, cookie, async_results, control_cookie>>

\* search_s(base, scope, filterstr, attrlist, attrsonly=0) with an attribute
\* list; _search_s does not read it.
search_s_attrlist(base, scope, filterstr, attrlist) ==
    /\ CanCall
    /\ LET args == PyTuple(<<PyStr(base), PyInt(scope), PyStr(filterstr), attrlist, PyInt(0)>>)
       IN Resolve("search_s", args, args,
                  [dir |-> directory, out |-> SearchS(directory, base, scope, filterstr)])
    /\ UNCHANGED <<isDefault, options, tls_enabled, cookie, async_results, control_cookie>>

\* start_tls_s(): it records no call.
start_tls_s ==
    /\ CanCall
    /\ tls_enabled' = TRUE
    /\ Finish("start_tls_s", PyTuple(<<>>), FALSE, FALSE,
              directory, return_value_maps, Return(PyNone))
    /\ UNCHANGED <<isDefault, options, cookie, async_results, control_cookie>>

compare_s(dn, attr, value) ==
    /\ CanCall
    /\ LET args == PyTuple(<<PyStr(dn), PyStr(attr), value>>)
       IN Resolve("compare_s", args, args,
                  CompareS(directory, isDefault, dn, attr, value))
    /\ UNCHANGED <<isDefault, options, tls_enabled, cookie, async_results, control_cookie>>

\* modify_s(dn, mod_attrs): mod_attrs = tuple(mod_attrs) before the lookup
modify_s(dn, mod_attrs, interned) ==
    /\ CanCall
    /\ LET t == PyTuple(mod_attrs.items)
       IN Resolve("modify_s", PyTuple(<<PyStr(dn), mod_attrs>>),
                  PyTuple(<<PyStr(dn), t>>),
                  ModifyS(directory, isDefault, dn, t, interned))
    /\ UNCHANGED <<isDefault, options, tls_enabled, cookie, async_results, control_cookie>>

\* delete_s(dn): the lookup is given dn, not the tuple (dn,)
delete_s(dn) ==
    /\ CanCall
    /\ Resolve("delete_s", PyTuple(<<PyStr(dn)>>), PyStr(dn), DeleteS(directory, dn))
    /\ UNCHANGED <<isDefault, options, tls_enabled, cookie, async_results, control_cookie>>

\* add_s(dn, record): record = self._mangle_record(record) before the lookup
add_s(dn, record) ==
    /\ CanCall
    /\ LET r == MangleRecord(record)
       IN Resolve("add_s", PyTuple(<<PyStr(dn), record>>), PyTuple(<<PyStr(dn), r>>),
                  AddS(directory, isDefault, dn, r, Len(calls) + 1))
    /\ UNCHANGED <<isDefault, options, tls_enabled, cookie, async_results, control_cookie>>

\* rename_s(dn, newrdn, superior=None)
rename_s(dn, newrdn, superior) ==
    /\ CanCall
    /\ LET args == PyTuple(<<PyStr(dn), PyStr(newrdn), superior>>)
       IN Resolve("rename_s", args, args,
                  RenameS(directory, isDefault, dn, newrdn, superior))
    /\ UNCHANGED <<isDefault, options, tls_enabled, cookie, async_results, control_cookie>>

unbind_s ==
    /\ CanCall
    /\ Finish("unbind_s", PyTuple(<<>>), TRUE, FALSE,
              directory, return_value_maps, Return(PyNone))
    /\ UNCHANGED <<isDefault, options, tls_enabled, cookie, async_results, control_cookie>>

\* b'...'
PyBytes(s) == PyValue("bytes", s, 0, <<>>, EmptyDict)
\* the caller's SimplePagedResultsControl; serverctrls is [control] or None
PyControl == PyValue("control", <<>>, 0, <<>>, EmptyDict)

\* search_ext(base, scope, filterstr, attrlist=None, attrsonly=0,
\*            serverctrls, ...).  A search that raises leaves
\* self._async_results[self.cookie] without 'data' and the cookie as it was.
search_ext(base, scope, filterstr, serverctrls) ==
    /\ CanCall
    /\ LET args == PyTuple(<<PyStr(base), PyInt(scope), PyStr(filterstr), PyNone, PyInt(0)>>)
           r == GetReturnValue(return_value_maps, "search_ext", args)
           value == IF IsNone(r.out) THEN SearchS(directory, base, scope, filterstr)
                    ELSE r.out
           pending(hasData, data) ==
               [m \in DOMAIN async_results \cup {cookie} |->
                   IF m = cookie THEN [hasData |-> hasData, data |-> data]
                   ELSE async_results[m]]
       IN IF serverctrls = PyNone
          THEN \* serverctrls[0] of None
               /\ Finish("search_ext", args, TRUE, FALSE, directory,
                         return_value_maps, Raise("TypeError"))
               /\ UNCHANGED <<cookie, async_results, control_cookie>>
          ELSE /\ control_cookie' = PyBytes(Decimal(cookie))
               /\ IF value.kind = "raise"
                  THEN /\ async_results' = pending(FALSE, PyNone)
                       /\ cookie' = cookie
                       /\ Finish("search_ext", args, TRUE,
                                 ~IsNone(r.out) /\ r.out # Raise("TypeError"),
                                 directory, r.maps, value)
                  ELSE /\ async_results' = pending(TRUE, value.value)
                       /\ cookie' = cookie + 1
                       /\ Finish("search_ext", args, TRUE, ~IsNone(r.out),
                                 directory, r.maps, Return(PyInt(cookie)))
    /\ UNCHANGED <<isDefault, options, tls_enabled>>

\* result3(msgid=ldap.RES_ANY, all=1, timeout=None)
result3(msgid) ==
    /\ CanCall
    /\ LET args == PyTuple(<<PyInt(msgid), PyInt(1), PyNone>>)
           fail(name) ==
               /\ Finish("result3", args, TRUE, FALSE, directory,
                         return_value_maps, Raise(name))
               /\ UNCHANGED <<async_results, control_cookie>>
       IN IF DOMAIN async_results # {} /\ msgid = RES_ANY
          THEN \* self._async_results.keys()[0]: dict_keys has no index
               fail("TypeError")
          ELSE IF msgid \in DOMAIN async_results
          THEN IF ~async_results[msgid].hasData
               THEN \* self._async_results[msgid]['data']
                    fail("KeyError")
               ELSE /\ async_results' =
                          [m \in DOMAIN async_results \ {msgid} |-> async_results[m]]
                    /\ control_cookie' = PyNone
                    /\ Finish("result3", args, TRUE, FALSE, directory,
                              return_value_maps,
                              Return(PyTuple(<<PyInt(RES_SEARCH_RESULT),
                                               async_results[msgid].data,
                                               PyInt(msgid),
                                               PyList(<<PyControl>>)>>)))
          ELSE \* controls[0] of a name that was never bound
               fail("UnboundLocalError")
    /\ UNCHANGED <<isDefault, options, tls_enabled, cookie>>

\* ------------------------------------------------------------------------
\* The same operations on the second instance.  __init__ keeps the mapping
\* it is given ("self.directory = directory"), so when the two instances
\* were given one mapping, what either does to its directory is done to the
\* directory of both; calls and return_value_maps are made by reset(), one
\* of each per instance.
\* ------------------------------------------------------------------------

PeerFinish(name, op, args, recorded, dirB, mapsB, out) ==
    /\ CanCall
    /\ peer' = [peer EXCEPT !.directory = dirB,
                            !.calls = IF recorded THEN Append(@, op) ELSE @,
                            !.return_value_maps = mapsB]
    /\ aliased' = aliased
    /\ directory' = IF aliased THEN dirB ELSE directory
    /\ history' = Append(history, name)
    /\ last' = [op |-> name, args |-> args, before |-> directory,
                registered |-> Registered(peer.return_value_maps, op, args),
                preset |-> PresetFor(peer.return_value_maps, op, args),
                found |-> FALSE, out |-> out]
    /\ UNCHANGED <<isDefault, calls, return_value_maps, options, tls_enabled, cookie,
                   async_results, control_cookie>>

PeerResolve(name, op, args, lookup, impl) ==
    LET r == GetReturnValue(peer.return_value_maps, op, lookup)
    IN IF IsNone(r.out)
       THEN PeerFinish(name, op, args, TRUE, impl.dir, r.maps, impl.out)
       ELSE PeerFinish(name, op, args, TRUE, peer.directory, r.maps, r.out)

peer_add_s(dn, record) ==
    LET r == MangleRecord(record)
    IN PeerResolve("peer.add_s", "add_s", PyTuple(<<PyStr(dn), record>>),
                   PyTuple(<<PyStr(dn), r>>),
                   AddS(peer.directory, peer.isDefault, dn, r, Len(peer.calls) + 1))

peer_delete_s(dn) ==
    PeerResolve("peer.delete_s", "delete_s", PyTuple(<<PyStr(dn)>>), PyStr(dn),
                DeleteS(peer.directory, dn))

peer_set_return_value(api_name, arguments, value) ==
    LET r == SetReturnValue(peer.return_value_maps, api_name, arguments, value)
    IN PeerFinish("peer.set_return_value", api_name,
                  PyTuple(<<PyStr(<<api_name>>), arguments, value>>),
                  FALSE, peer.directory, r.maps, r.out)

\* ------------------------------------------------------------------------
\* The test-facing operations, which the ledger does not record
\* ------------------------------------------------------------------------

set_return_value(api_name, arguments, value) ==
    LET r == SetReturnValue(return_value_maps, api_name, arguments, value)
    IN /\ CanCall
       /\ return_value_maps' = r.maps
       /\ history' = Append(history, "set_return_value")
       /\ last' = [op |-> "set_return_value",
                   args |-> PyTuple(<<PyStr(<<api_name>>), arguments, value>>),
                   before |-> directory, registered |-> FALSE, preset |-> PyNone, found |-> FALSE,
                   out |-> r.out]
       /\ UNCHANGED <<directory, isDefault, calls, options, tls_enabled, cookie,
                      async_results, control_cookie, peer, aliased>>

\* reset() leaving the preset table as it is
reset_KeepsPresets ==
    /\ CanCall
    /\ calls' = <<>>
    /\ options' = EmptyDict
    /\ tls_enabled' = FALSE
    /\ history' = Append(history, "reset")
    /\ last' = [op |-> "reset", args |-> PyTuple(<<>>), before |-> directory,
                registered |-> FALSE, preset |-> PyNone, found |-> FALSE, out |-> Return(PyNone)]
    /\ UNCHANGED <<directory, isDefault, return_value_maps, cookie, async_results,
                   control_cookie, peer, aliased>>

reset ==
    /\ CanCall
    /\ calls' = <<>>
    /\ return_value_maps' = EmptyDict
    /\ options' = EmptyDict
    /\ tls_enabled' = FALSE
    /\ history' = Append(history, "reset")
    /\ last' = [op |-> "reset", args |-> PyTuple(<<>>), before |-> directory,
                registered |-> FALSE, preset |-> PyNone, found |-> FALSE, out |-> Return(PyNone)]
    /\ UNCHANGED <<directory, isDefault, cookie, async_results, control_cookie,
                   peer, aliased>>

\* ------------------------------------------------------------------------
\* Inputs
\* ------------------------------------------------------------------------

\* 'd=x', 'c=a,d=x' (a child of d=x), 'c=b,c=a,d=x' (a grandchild)
BaseDN == <<"d","=","x">>
ChildDN == <<"c","=","a",",","d","=","x">>
GrandDN == <<"c","=","b",",","c","=","a",",","d","=","x">>
\* 'x=x,d=d,d=x': a grandchild of d=x written with the characters of d=x
DeepDN == <<"x","=","x",",","d","=","d",",","d","=","x">>
\* more children of d=x
GroupDN == <<"c","=","g",",","d","=","x">>
TupleDN == <<"c","=","t",",","d","=","x">>
PlainDN == <<"c","=","n",",","d","=","x">>
\* a dn no seed holds
MissingDN == <<"c","=","z",",","d","=","x">>
\* 'C=A,d=x', whose lower() is 'c=a,d=x'
WhoUpper == <<"C","=","A",",","d","=","x">>

\* attribute names 'm', 'n', 'c', 'd'
AttrM == <<"m">>
AttrN == <<"n">>

Pq == <<"p","q">>
ValJ == PyStr(<<"j">>)
ValK == PyStr(<<"k">>)

\* The directory given to __init__.  Scalar attributes, as in tests.py:
SeedScalar ==
    << [dn |-> BaseDN, attrs |-> (<<"d">> :> PyStr(<<"x">>))],
       [dn |-> ChildDN, attrs |-> (userPassword :> PyStr(Pq)) @@ (AttrM :> ValJ)],
       [dn |-> GrandDN, attrs |-> (AttrM :> ValJ)],
       [dn |-> DeepDN, attrs |-> (AttrM :> ValJ)] >>
\* lists of values, as in the docstring of __init__, and a tuple:
SeedList ==
    << [dn |-> ChildDN, attrs |-> (userPassword :> PyList(<<PyStr(Pq)>>))
                                  @@ (AttrM :> PyList(<<ValJ>>))],
       [dn |-> GroupDN, attrs |-> (AttrM :> PyList(<<ValJ, ValK>>))],
       [dn |-> TupleDN, attrs |-> (AttrM :> PyTuple(<<ValJ>>))],
       [dn |-> PlainDN, attrs |-> (<<"c">> :> PyStr(<<"n">>))] >>
\* <<>>: MockLDAP() and MockLDAP({})
Seeds == {<<>>, SeedScalar, SeedList}

\* '(m=j)', '(m=k)'
FilterJ == <<"(","m","=","j",")">>
FilterK == <<"(","m","=","k",")">>
\* '(&(m=j)(m=j))', '(m=j)(m=j)', '(m=c=a)'
FilterAnd == <<"(","&","(","m","=","j",")","(","m","=","j",")",")">>
FilterTwo == <<"(","m","=","j",")","(","m","=","j",")">>
FilterEq == <<"(","m","=","c","=","a",")">>

Whos == {<<>>, WhoUpper, MissingDN}
Creds == {<<>>, Pq, <<"p">>, <<"k">>}
SearchBases == {BaseDN, ChildDN, MissingDN}
Scopes == {SCOPE_BASE, SCOPE_ONELEVEL, SCOPE_SUBTREE}
Filters == {DefaultFilter, FilterJ, FilterK, FilterAnd, FilterTwo, FilterEq}
CompareDNs == {ChildDN, GroupDN, MissingDN}
CompareAttrs == {userPassword, AttrM}
CompareValues == {PyStr(Pq), PyStr(<<"p">>), ValJ}
StoreDNs == {ChildDN, MissingDN}

\* modification lists
Mod(op, key, value) == PyTuple(<<PyInt(op), PyStr(key), value>>)
ModValues == {PyNone, ValJ, ValK, PyList(<<ValJ>>), PyList(<<ValJ, ValK>>)}
ModLists ==
    {PyList(<<Mod(op, AttrM, value)>>) :
        op \in {MOD_ADD, MOD_DELETE, MOD_REPLACE}, value \in ModValues}
    \cup {PyList(<<Mod(op, AttrN, ValJ)>>) : op \in {MOD_ADD, MOD_DELETE, MOD_REPLACE}}
    \cup {PyList(<<Mod(MOD_REPLACE, AttrM, ValK), Mod(MOD_DELETE, AttrN, PyNone)>>),
          PyList(<<Mod(MOD_DELETE, AttrM, ValJ), Mod(MOD_REPLACE, AttrN, ValK)>>)}

\* add_s records
Item(key, value) == PyTuple(<<PyStr(key), value>>)
Records ==
    {PyList(<<Item(AttrM, ValJ)>>),
     PyList(<<Item(AttrM, PyList(<<ValJ>>))>>),
     PyList(<<Item(AttrM, ValK), Item(userPassword, PyStr(Pq))>>)}

\* new RDNs: 'c=b', 'c=a' (the RDN ChildDN has), 'cb'
NewRDNs == {<<"c","=","b">>, <<"c","=","a">>, <<"c","b">>}
Superiors == {PyNone, PyStr(<<"d","=","y">>)}

\* presets: a value, None, and an exception instance
PresetValue == PyTuple(<<PyInt(7), PyList(<<>>)>>)
PresetError == PyExc("SERVER_DOWN")
PresetValues == {PresetValue, PresetError, PyNone}
\* (api, arguments) of set_return_value: the tuple of a call's arguments
PresetCalls ==
    {<<"initialize", PyTuple(<<PyStr(<<"u">>), PyInt(0), PyNone, PyNone>>)>>,
     <<"simple_bind_s", PyTuple(<<PyStr(WhoUpper), PyStr(<<"k">>)>>)>>,
     <<"search_s", PyTuple(<<PyStr(BaseDN), PyInt(SCOPE_SUBTREE), PyStr(FilterJ), PyNone, PyInt(0)>>)>>,
     <<"search_ext", PyTuple(<<PyStr(BaseDN), PyInt(SCOPE_BASE), PyStr(DefaultFilter), PyNone, PyInt(0)>>)>>,
     <<"compare_s", PyTuple(<<PyStr(ChildDN), PyStr(AttrM), ValJ>>)>>,
     <<"add_s", PyTuple(<<PyStr(MissingDN), PyList(<<Item(AttrM, PyList(<<ValJ>>))>>)>>)>>,
     <<"modify_s", PyTuple(<<PyStr(ChildDN), PyList(<<Mod(MOD_REPLACE, AttrM, ValK)>>)>>)>>,
     <<"delete_s", PyTuple(<<PyStr(ChildDN)>>)>>,
     <<"rename_s", PyTuple(<<PyStr(ChildDN), PyStr(<<"c","=","b">>), PyNone>>)>>}

\* ------------------------------------------------------------------------
\* The state machine
\* ------------------------------------------------------------------------

\* __init__(directory): "if directory" is false for None and for {}
Init ==
    /\ directory \in Seeds
    /\ isDefault = (directory = <<>>)
    /\ calls = <<>>
    /\ return_value_maps = EmptyDict
    /\ options = EmptyDict
    /\ tls_enabled = FALSE
    /\ cookie = 0
    /\ async_results = EmptyDict
    /\ control_cookie = PyNone
    /\ aliased \in (IF directory = <<>> THEN {FALSE} ELSE BOOLEAN)
    /\ peer = [directory |-> directory, isDefault |-> (directory = <<>>),
               calls |-> <<>>, return_value_maps |-> EmptyDict]
    /\ history = <<>>
    /\ last = [op |-> "__init__", args |-> PyTuple(<<>>), before |-> directory,
               registered |-> FALSE, preset |-> PyNone, found |-> FALSE, out |-> Return(PyNone)]

\* Every operation, on one or two inputs each.
Next ==
    \/ \E option \in {17}, invalue \in {3} : set_option(option, invalue)
    \/ \E trace_file \in {PyFile, PyNone} : initialize(<<"u">>, trace_file)
    \/ \E a \in {<<WhoUpper, Pq>>, <<MissingDN, Pq>>} : simple_bind_s(a[1], a[2])
    \/ \E base \in {BaseDN, MissingDN} : search_s(base, SCOPE_BASE, DefaultFilter)
    \/ \E ctrls \in {PyNone, PyList(<<PyControl>>)} :
          search_ext(BaseDN, SCOPE_BASE, DefaultFilter, ctrls)
    \/ \E msgid \in {RES_ANY, 0} : result3(msgid)
    \/ start_tls_s
    \/ compare_s(ChildDN, AttrM, ValJ)
    \/ \E interned \in BOOLEAN :
          modify_s(ChildDN, PyList(<<Mod(MOD_REPLACE, AttrM, ValK)>>), interned)
    \/ delete_s(ChildDN)
    \/ add_s(MissingDN, PyList(<<Item(AttrM, ValJ)>>))
    \/ rename_s(ChildDN, <<"c","=","b">>, PyNone)
    \/ unbind_s
    \/ set_return_value("delete_s", PyTuple(<<PyStr(ChildDN)>>), PresetValue)
    \/ reset

Spec == Init /\ [][Next]_vars

\* Binding and comparing, on a store that add_s and delete_s change.
NextBind ==
    \/ \E who \in Whos, cred \in Creds : simple_bind_s(who, cred)
    \/ \E dn \in CompareDNs, attr \in CompareAttrs, value \in CompareValues :
          compare_s(dn, attr, value)
    \/ \E dn \in StoreDNs, record \in Records : add_s(dn, record)
    \/ \E dn \in StoreDNs : delete_s(dn)

SpecBind == Init /\ [][NextBind]_vars

\* The operations that change the store, and the base-scope search.
NextStore ==
    \/ \E dn \in StoreDNs, record \in Records : add_s(dn, record)
    \/ \E dn \in StoreDNs : delete_s(dn)
    \/ \E dn \in StoreDNs, newrdn \in NewRDNs, superior \in Superiors :
          rename_s(dn, newrdn, superior)
    \/ \E dn \in StoreDNs, interned \in BOOLEAN,
          mods \in {PyList(<<Mod(MOD_REPLACE, AttrM, ValK)>>),
                    PyList(<<Mod(MOD_DELETE, AttrM, PyNone)>>)} :
          modify_s(dn, mods, interned)
    \/ \E base \in SearchBases : search_s(base, SCOPE_BASE, DefaultFilter)

SpecStore == Init /\ [][NextStore]_vars

\* modify_s on every modification list.
NextModify ==
    \/ \E dn \in {ChildDN, GroupDN, MissingDN}, mods \in ModLists, interned \in BOOLEAN :
          modify_s(dn, mods, interned)

SpecModify == Init /\ [][NextModify]_vars

\* search_s on every base, scope and filter, on a store that add_s and
\* delete_s change.
NextSearch ==
    \/ \E base \in SearchBases, scope \in Scopes, f \in Filters : search_s(base, scope, f)
    \/ \E dn \in {MissingDN, GrandDN}, record \in Records : add_s(dn, record)
    \/ \E dn \in StoreDNs : delete_s(dn)

SpecSearch == Init /\ [][NextSearch]_vars

\* The operations that consult the preset table, each called with the
\* arguments of a preset and with others, and the table's own operations.
NextPreset ==
    \/ \E c \in PresetCalls, value \in PresetValues : set_return_value(c[1], c[2], value)
    \/ initialize(<<"u">>, PyNone)
    \/ \E cred \in {<<"k">>, Pq} : simple_bind_s(WhoUpper, cred)
    \/ \E scope \in {SCOPE_SUBTREE, SCOPE_BASE} : search_s(BaseDN, scope, FilterJ)
    \/ \E value \in {ValJ, ValK} : compare_s(ChildDN, AttrM, value)
    \/ \E record \in {PyList(<<Item(AttrM, PyList(<<ValJ>>))>>),
                      PyList(<<Item(AttrM, PyTuple(<<ValJ>>))>>)} :
          add_s(MissingDN, record)
    \/ \E interned \in BOOLEAN,
          mods \in {PyList(<<Mod(MOD_REPLACE, AttrM, ValK)>>),
                    PyTuple(<<Mod(MOD_REPLACE, AttrM, ValK)>>)} :
          modify_s(ChildDN, mods, interned)
    \/ \E dn \in {ChildDN, MissingDN} : delete_s(dn)
    \/ \E superior \in Superiors : rename_s(ChildDN, <<"c","=","b">>, superior)
    \/ reset

SpecPreset == Init /\ [][NextPreset]_vars

\* Two instances: operations on the first and on the second.
NextPeers ==
    \/ \E dn \in StoreDNs : add_s(dn, PyList(<<Item(AttrM, ValJ)>>))
    \/ \E dn \in StoreDNs : delete_s(dn)
    \/ \E interned \in BOOLEAN :
          modify_s(ChildDN, PyList(<<Mod(MOD_REPLACE, AttrM, ValK)>>), interned)
    \/ compare_s(ChildDN, AttrM, ValJ)
    \/ set_return_value("delete_s", PyStr(ChildDN), PresetValue)
    \/ reset
    \/ \E dn \in StoreDNs : peer_add_s(dn, PyList(<<Item(AttrM, ValK)>>))
    \/ \E dn \in StoreDNs : peer_delete_s(dn)
    \/ peer_set_return_value("delete_s", PyStr(ChildDN), PresetError)

SpecPeers == Init /\ [][NextPeers]_vars

\* reset() among presets, recorded calls, options and TLS.
NextReset ==
    \/ \E value \in {PresetValue, PresetError} :
          set_return_value("compare_s",
                           PyTuple(<<PyStr(ChildDN), PyStr(AttrM), ValJ>>), value)
    \/ compare_s(ChildDN, AttrM, ValJ)
    \/ \E dn \in StoreDNs : add_s(dn, PyList(<<Item(AttrM, ValJ)>>))
    \/ set_option(17, 3)
    \/ start_tls_s
    \/ reset

SpecReset == Init /\ [][NextReset]_vars

\* signatures with lists and the equal signatures with tuples
RecordOfLists == PyList(<<PyList(<<PyStr(AttrM), PyList(<<ValJ>>)>>)>>)
RecordOfTuples == PyTuple(<<PyTuple(<<PyStr(AttrM), PyTuple(<<ValJ>>)>>)>>)
ModsOfLists == PyList(<<PyList(<<PyInt(MOD_REPLACE), PyStr(AttrM), PyList(<<ValK>>)>>)>>)
ModsOfTuples == PyTuple(<<PyTuple(<<PyInt(MOD_REPLACE), PyStr(AttrM), PyTuple(<<ValK>>)>>)>>)
AttrsList == PyList(<<PyStr(AttrM)>>)
AttrsTuple == PyTuple(<<PyStr(AttrM)>>)
SearchSignature(attrlist) ==
    <<PyStr(BaseDN), PyInt(SCOPE_SUBTREE), PyStr(FilterJ), attrlist, PyInt(0)>>

\* Presets registered with lists (add_s), with tuples (modify_s) and with a
\* list holding a tuple (search_s), and the calls made with lists and with
\* tuples.
NextShapes ==
    \/ \E value \in {PresetValue, PresetError},
          c \in {<<"add_s", PyTuple(<<PyStr(MissingDN), RecordOfLists>>)>>,
                 <<"modify_s", PyTuple(<<PyStr(ChildDN), ModsOfTuples>>)>>,
                 <<"search_s", PyList(SearchSignature(AttrsTuple))>>} :
          set_return_value(c[1], c[2], value)
    \/ \E record \in {RecordOfLists, RecordOfTuples} : add_s(MissingDN, record)
    \/ \E mods \in {ModsOfLists, ModsOfTuples}, interned \in BOOLEAN :
          modify_s(ChildDN, mods, interned)
    \/ \E attrlist \in {AttrsList, AttrsTuple} :
          search_s_attrlist(BaseDN, SCOPE_SUBTREE, FilterJ, attrlist)

SpecShapes == Init /\ [][NextShapes]_vars

\* ------------------------------------------------------------------------
\* Properties
\* ------------------------------------------------------------------------

\* the i-th argument of the last call; as a string
Arg(i) == last.args.items[i]
ArgStr(i) == last.args.items[i].s

\* The last call had no preset: none was registered for its arguments and
\* the lookup found none.
NoPreset == ~last.registered /\ ~last.found

\* The stores are equal as Python dicts.
SameStore(d1, d2) == AsMap(d1) = AsMap(d2)

\* the operations of the LDAP API (reset and set_return_value are the
\* test's own)
PublicOps == {"set_option", "initialize", "simple_bind_s", "search_s", "search_ext",
              "result3", "start_tls_s", "compare_s", "modify_s", "delete_s", "add_s",
              "rename_s", "unbind_s"}
IsPublicOp(name) == name \in PublicOps

\* the operations invoked since the last reset (or since construction)
SinceReset(h) ==
    LET resets == {i \in DOMAIN h : h[i] = "reset"}
        from == IF resets = {} THEN 1
                ELSE (CHOOSE i \in resets : \A j \in resets : j <= i) + 1
    IN SubSeq(h, from, Len(h))

\* C1: the call ledger is the sequence of the public operations invoked
\* since the last reset (or since construction), in order: as long, and
\* its i-th record names the i-th operation invoked.
C1_LedgerIsTheInvocations ==
    calls = SelectSeq(SinceReset(history), IsPublicOp)

\* C2: a call of initialize, simple_bind_s, search_s, compare_s, add_s,
\* modify_s, delete_s or rename_s for whose argument tuple a value other
\* than None is registered returns that value, or raises it when it is an
\* exception, and leaves the store as it was.
C2_PresetAnswersTheCall ==
    ( /\ last.op \in {"initialize", "simple_bind_s", "search_s", "compare_s",
                      "add_s", "modify_s", "delete_s", "rename_s"}
      /\ last.registered
      /\ last.preset # PyNone )
    => /\ last.out = IF last.preset.t = "exc"
                     THEN RaiseValue(last.preset) ELSE Return(last.preset)
       /\ SameStore(directory, last.before)

\* cred is a value stored under userPassword of the entry dn: the value
\* itself, or an element of the sequence of values.
CredStored(dir, dn, cred) ==
    /\ Has(dir, dn)
    /\ userPassword \in DOMAIN Entry(dir, dn)
    /\ LET row == Entry(dir, dn)[userPassword]
       IN \/ PyEq(row, PyStr(cred))
          \/ /\ row.t \in {"list", "tuple"}
             /\ \E i \in DOMAIN row.items : PyEq(row.items[i], PyStr(cred))

\* C3: simple_bind_s(who, cred) with no preset and not both arguments empty
\* returns (97, []) only if cred is a value stored under userPassword of the
\* entry who.lower(), and raises INVALID_CREDENTIALS in every other case.
C3_BindOnlyWithStoredCredential ==
    ( /\ last.op = "simple_bind_s"
      /\ NoPreset
      /\ ~(ArgStr(1) = <<>> /\ ArgStr(2) = <<>>) )
    => IF CredStored(last.before, StrLower(ArgStr(1)), ArgStr(2))
       THEN last.out = Return(BindSuccess)
       ELSE Raised(last.out, "INVALID_CREDENTIALS")

\* The value a record gives an attribute: that of its last pair for it.
RecordValue(items, key) ==
    items[CHOOSE i \in DOMAIN items :
              /\ items[i].items[1].s = key
              /\ \A j \in DOMAIN items : items[j].items[1].s = key => j <= i].items[2]

\* Two values are the same value, a list and a tuple of the same elements
\* counting as one sequence.
SameValue(a, b) ==
    \/ PyEq(a, b)
    \/ /\ a.t \in {"list", "tuple"}
       /\ b.t \in {"list", "tuple"}
       /\ a.items = b.items

\* Every entry but those of the dns is as it was before the last call.
OthersUnchanged(dns) ==
    /\ Keys(directory) \ dns = Keys(last.before) \ dns
    /\ \A dn \in Keys(directory) \ dns : Entry(directory, dn) = Entry(last.before, dn)

\* C4: add_s(dn, record) with no preset for a dn that has no entry stores at
\* dn the entry that maps each attribute of record to its value, leaves every
\* other entry as it was and returns (105, [], n, []), n the ledger length
\* with this call.
C4_AddStoresTheEntry ==
    ( /\ last.op = "add_s"
      /\ NoPreset
      /\ ~Has(last.before, ArgStr(1)) )
    => /\ last.out = Return(AddSuccess(Len(calls)))
       /\ Has(directory, ArgStr(1))
       /\ LET entry == Entry(directory, ArgStr(1))
              items == Arg(2).items
          IN /\ DOMAIN entry = {items[i].items[1].s : i \in DOMAIN items}
             /\ \A k \in DOMAIN entry : SameValue(entry[k], RecordValue(items, k))
       /\ OthersUnchanged({ArgStr(1)})

\* C5: add_s(dn, record) with no preset for a dn that has an entry raises
\* ALREADY_EXISTS and leaves the store exactly as it was.
C5_AddExistingRaises ==
    ( /\ last.op = "add_s"
      /\ NoPreset
      /\ Has(last.before, ArgStr(1)) )
    => /\ Raised(last.out, "ALREADY_EXISTS")
       /\ directory = last.before

\* C5 happens: a second add_s of the dn that an add_s stored.
C5_Witness ==
    /\ last.op = "add_s"
    /\ NoPreset
    /\ ArgStr(1) = MissingDN
    /\ ~isDefault
    /\ Has(last.before, MissingDN)
    /\ Raised(last.out, "ALREADY_EXISTS")
    /\ directory = last.before

\* C6: modify_s, delete_s, rename_s and a base-scope search_s with the
\* default filter, with no preset, on a dn that has no entry raise
\* NO_SUCH_OBJECT and leave the store as it was: the dn still has no entry.
C6_MissingDnRaisesNoSuchObject ==
    ( /\ NoPreset
      /\ \/ last.op \in {"modify_s", "delete_s", "rename_s"}
         \/ /\ last.op = "search_s"
            /\ Arg(2) = PyInt(SCOPE_BASE)
            /\ ArgStr(3) = DefaultFilter
      /\ ~Has(last.before, ArgStr(1)) )
    => /\ Raised(last.out, "NO_SUCH_OBJECT")
       /\ directory = last.before
       /\ ~Has(directory, ArgStr(1))

\* dn is base preceded by one RDN component and a comma.
IsDirectChild(dn, base) ==
    LET n == Len(dn) - Len(base) - 1
    IN /\ n >= 1
       /\ SubSeq(dn, n + 1, Len(dn)) = <<",">> \o base
       /\ \A i \in 1..n : dn[i] # ","

\* the dns of the entries a search returned
ResultDNs(out) == {out.value.items[i].items[1].s : i \in DOMAIN out.value.items}

OneLevelSearch ==
    /\ last.op = "search_s"
    /\ NoPreset
    /\ Arg(2) = PyInt(SCOPE_ONELEVEL)

\* C7: a one-level search_s with no preset returns only direct children of
\* its base, never an entry two or more levels below it.
C7_OneLevelReturnsOnlyChildren ==
    (OneLevelSearch /\ last.out.kind = "return")
    => \A dn \in ResultDNs(last.out) : IsDirectChild(dn, ArgStr(1))

\* The attribute is stored as the scalar value or as a sequence of one
\* element, the value.
HoldsOnly(attrs, attr, value) ==
    /\ attr \in DOMAIN attrs
    /\ \/ PyEq(attrs[attr], PyStr(value))
       \/ /\ attrs[attr].t \in {"list", "tuple"}
          /\ Len(attrs[attr].items) = 1
          /\ PyEq(attrs[attr].items[1], PyStr(value))

\* C8: a one-level search_s for '(attr=value)' with no preset returns a
\* direct child of base if and only if its attr is stored as the scalar
\* value or as a one-element sequence of it.  (The filters '(m=j)' and
\* '(m=k)': attr is the second character, value the fourth.)
C8_OneLevelMatchesScalarOrSingleton ==
    (OneLevelSearch /\ ArgStr(3) \in {FilterJ, FilterK})
    => /\ last.out.kind = "return"
       /\ \A dn \in Keys(last.before) :
             IsDirectChild(dn, ArgStr(1))
             => ( dn \in ResultDNs(last.out)
                  <=> HoldsOnly(Entry(last.before, dn),
                                <<ArgStr(3)[2]>>, <<ArgStr(3)[4]>>) )

\* the values of an attribute value: a scalar is one value
Values(v) == IF v.t \in {"list", "tuple"} THEN v.items ELSE <<v>>
AttrValues(attrs, key) == IF key \in DOMAIN attrs THEN Values(attrs[key]) ELSE <<>>

\* The last call was modify_s, with no preset, of an existing entry, with
\* one modification of kind op.
SingleMod(op) ==
    /\ last.op = "modify_s"
    /\ NoPreset
    /\ Has(last.before, ArgStr(1))
    /\ Len(Arg(2).items) = 1
    /\ Arg(2).items[1].items[1] = PyInt(op)
ModKey == Arg(2).items[1].items[2].s
ModValue == Arg(2).items[1].items[3]

\* Every attribute of the modified entry but key is as it was.
OtherAttrsUnchanged(key) ==
    LET new == Entry(directory, ArgStr(1))
        old == Entry(last.before, ArgStr(1))
    IN /\ DOMAIN new \ {key} = DOMAIN old \ {key}
       /\ \A k \in DOMAIN new \ {key} : new[k] = old[k]

\* C9: modify_s(dn, [(MOD_ADD, attr, value)]) on an existing entry returns
\* (103, []) and leaves attr holding its previous values followed by the
\* new one(s); every other attribute and entry is as it was.
C9_ModAddAppends ==
    (SingleMod(MOD_ADD) /\ ModValue # PyNone)
    => /\ last.out = Return(ModifySuccess)
       /\ Has(directory, ArgStr(1))
       /\ AttrValues(Entry(directory, ArgStr(1)), ModKey)
             = AttrValues(Entry(last.before, ArgStr(1)), ModKey) \o Values(ModValue)
       /\ OtherAttrsUnchanged(ModKey)
       /\ OthersUnchanged({ArgStr(1)})

\* C10: modify_s(dn, [(MOD_DELETE, attr, value)]) on an existing entry that
\* holds attr: a null value removes attr; a value or a sequence of values
\* removes exactly those from attr, the others keeping their order; attr
\* itself goes when no value remains.
C10_ModDeleteRemoves ==
    (SingleMod(MOD_DELETE) /\ ModKey \in DOMAIN Entry(last.before, ArgStr(1)))
    => LET prev == AttrValues(Entry(last.before, ArgStr(1)), ModKey)
           Stays(x) == ModValue # PyNone /\ x \notin Range(Values(ModValue))
           rest == SelectSeq(prev, Stays)
       IN /\ Has(directory, ArgStr(1))
          /\ LET new == Entry(directory, ArgStr(1))
             IN IF rest = <<>>
                THEN ModKey \notin DOMAIN new
                ELSE ModKey \in DOMAIN new /\ Values(new[ModKey]) = rest

\* C11: modify_s(dn, [(MOD_REPLACE, attr, value)]) on an existing entry
\* leaves attr holding the given value(s) as a sequence, a scalar being
\* stored as a sequence of one element; every other attribute is as it was.
C11_ModReplaceStoresSequence ==
    (SingleMod(MOD_REPLACE) /\ ModValue # PyNone)
    => /\ Has(directory, ArgStr(1))
       /\ LET new == Entry(directory, ArgStr(1))
          IN /\ ModKey \in DOMAIN new
             /\ new[ModKey].t \in {"list", "tuple"}
             /\ new[ModKey].items = Values(ModValue)
       /\ OtherAttrsUnchanged(ModKey)

\* the part of dn after its first comma (empty when dn has no comma)
AfterFirstComma(dn) ==
    LET commas == {i \in DOMAIN dn : dn[i] = ","}
    IN IF commas = {} THEN <<>>
       ELSE SubSeq(dn, (CHOOSE i \in commas : \A j \in commas : i <= j) + 1, Len(dn))

\* the dn rename_s(dn, newrdn, superior) is to store the entry under
RenamedDN(dn, newrdn, superior) ==
    newrdn \o <<",">> \o (IF superior.t = "str" THEN superior.s ELSE AfterFirstComma(dn))

\* C12: rename_s(dn, newrdn, superior) on an existing dn, newrdn being
\* key=value, returns (109, []); afterwards newdn holds the entry with
\* attribute key set to value, also when newdn equals dn; dn has no entry
\* when newdn differs from it; every other entry is as it was.
C12_RenameMovesTheEntry ==
    ( /\ last.op = "rename_s"
      /\ NoPreset
      /\ Has(last.before, ArgStr(1))
      /\ Len(StrSplit(ArgStr(2), "=")) = 2 )
    => LET dn == ArgStr(1)
           newdn == RenamedDN(dn, ArgStr(2), Arg(3))
           parts == StrSplit(ArgStr(2), "=")
       IN /\ last.out = Return(RenameSuccess)
          /\ Has(directory, newdn)
          /\ Entry(directory, newdn)
                = DictSet(Entry(last.before, dn), parts[1], PyStr(parts[2]))
          /\ newdn # dn => ~Has(directory, dn)
          /\ OthersUnchanged({dn, newdn})

\* value is one of the values stored under attr of the entry dn: the
\* scalar the attribute holds, or an element of its sequence.
ValueStored(dir, dn, attr, value) ==
    /\ Has(dir, dn)
    /\ attr \in DOMAIN Entry(dir, dn)
    /\ LET row == Entry(dir, dn)[attr]
       IN \/ PyEq(row, value)
          \/ /\ row.t \in {"list", "tuple"}
             /\ \E i \in DOMAIN row.items : PyEq(row.items[i], value)

\* C13: compare_s(dn, attr, value) with no preset returns 1 if value is one
\* of the values stored under attr of dn's entry and 0 otherwise, a missing
\* entry or attribute giving 0; it never raises.
C13_CompareIsMembership ==
    (last.op = "compare_s" /\ NoPreset)
    => last.out = IF ValueStored(last.before, ArgStr(1), ArgStr(2), Arg(3))
                  THEN Return(PyInt(1)) ELSE Return(PyInt(0))

\* C14: search_s (and search_ext) with a scope other than base and
\* one-level, and with no preset, raises PresetReturnRequiredError whatever
\* the base, the filter and the store.
C14_OtherScopeNeedsPreset ==
    ( /\ last.op \in {"search_s", "search_ext"}
      /\ NoPreset
      /\ Arg(2) \notin {PyInt(SCOPE_BASE), PyInt(SCOPE_ONELEVEL)} )
    => Raised(last.out, "PresetReturnRequiredError")

\* f is one parenthesised attribute=value clause: "(", a name of word
\* characters, "=", a value, ")", with no parenthesis inside.
IsSingleClause(f) ==
    /\ Len(f) >= 5
    /\ f[1] = "("
    /\ f[Len(f)] = ")"
    /\ \A i \in 2..(Len(f) - 1) : f[i] \notin {"(", ")"}
    /\ \E k \in 2..(Len(f) - 3) :
          /\ \A i \in 2..k : f[i] \in WordChars
          /\ f[k + 1] = "="

\* C15: a one-level search_s with no preset raises PresetReturnRequiredError
\* for every filter that is not one parenthesised attribute=value clause:
\* compound filters, clauses side by side, any other shape.
C15_OtherFilterShapesNeedPreset ==
    (OneLevelSearch /\ ~IsSingleClause(ArgStr(3)))
    => Raised(last.out, "PresetReturnRequiredError")

\* C16: no public operation changes the directory store and then raises:
\* whenever a call ends with an error, the store is as it was before the
\* call.
C16_NoMutationBeforeError ==
    (last.op \in PublicOps /\ last.out.kind = "raise")
    => directory = last.before

\* The step is delete_s(dn) with no preset, taken right after add_s(dn,
\* record) with no preset on a store where dn had no entry.
DeleteAfterAdd ==
    /\ last.op = "add_s"
    /\ NoPreset
    /\ ~Has(last.before, ArgStr(1))
    /\ last'.op = "delete_s"
    /\ ~last'.registered /\ ~last'.found
    /\ last'.args.items[1] = Arg(1)
    /\ history' = Append(history, "delete_s")

\* C17: add_s(dn, record) on a dn that has no entry, followed by
\* delete_s(dn), both with no preset: both succeed, and the store is then
\* what it was before the add.
C17_AddThenDeleteRestores ==
    [][DeleteAfterAdd =>
          /\ last.out.kind = "return"
          /\ last'.out.kind = "return"
          /\ directory' = last.before]_vars

\* the operations of the second instance
PeerOps == {"peer.add_s", "peer.delete_s", "peer.set_return_value"}

\* C18: an operation on one instance changes neither the directory store
\* nor the ledger nor the preset table of the other, also when the two
\* were built from one initial mapping.
C18_InstancesShareNothing ==
    [][ /\ last'.op \notin PeerOps => peer' = peer
        /\ last'.op \in PeerOps =>
              /\ directory' = directory
              /\ calls' = calls
              /\ return_value_maps' = return_value_maps ]_vars

\* C19: reset() empties the ledger, the preset table and the options, sets
\* the TLS flag to false and leaves the store as it was; a call made after
\* a reset, with no preset registered since, is answered by the built-in
\* emulation, whatever was registered for it before the reset.
C19_ResetClearsAllButTheStore ==
    /\ last.op = "reset"
       => /\ calls = <<>>
          /\ return_value_maps = EmptyDict
          /\ options = EmptyDict
          /\ tls_enabled = FALSE
          /\ directory = last.before
    /\ ( /\ last.op \in PublicOps
         /\ "reset" \in Range(history)
         /\ "set_return_value" \notin Range(SinceReset(history)) )
       => /\ ~last.registered
          /\ ~last.found
          /\ last.op = "compare_s"
             => last.out = CompareS(last.before, isDefault, ArgStr(1), ArgStr(2), Arg(3)).out

\* A preset was registered for compare_s(ChildDN, 'm', 'j'), reset() ran,
\* and the call was answered by the comparison.
C19_Witness ==
    /\ history = <<"set_return_value", "reset", "compare_s">>
    /\ Arg(1) = PyStr(ChildDN)
    /\ ~last.found
    /\ last.out = Return(PyInt(1))
    /\ calls = <<"compare_s">>

\* The step is a call of op (not a stuttering step).
CallOf(op) == history' # history /\ last'.op = op

\* C20: the identifiers search_ext returns are strictly increasing (each is
\* above every identifier pending and below the next to be given);
\* search_ext with no preset keeps for its identifier the result search_s
\* gives for the same arguments; a search_ext whose search fails leaves the
\* pending results as they were; result3(msgid) for a pending identifier
\* returns (101, the result kept for it, msgid, controls).
C20_PagedSearchKeepsItsResult ==
    [][ /\ (CallOf("search_ext") /\ last'.out.kind = "return")
           => LET id == last'.out.value.n
              IN /\ \A m \in DOMAIN async_results : m < id
                 /\ cookie <= id /\ id < cookie'
                 /\ id \in DOMAIN async_results'
                 /\ (~last'.registered /\ ~last'.found)
                    => /\ async_results'[id].hasData
                       /\ Return(async_results'[id].data)
                             = SearchS(directory, last'.args.items[1].s,
                                       last'.args.items[2].n, last'.args.items[3].s)
        /\ (CallOf("search_ext") /\ last'.out.kind = "raise")
           => async_results' = async_results
        /\ (CallOf("result3") /\ last'.args.items[1].n \in DOMAIN async_results)
           => LET msgid == last'.args.items[1].n
              IN /\ last'.out.kind = "return"
                 /\ last'.out.value.items[1] = PyInt(RES_SEARCH_RESULT)
                 /\ last'.out.value.items[2] = async_results[msgid].data
                 /\ last'.out.value.items[3] = PyInt(msgid)
                 /\ msgid \notin DOMAIN async_results' ]_vars

\* Two values are equal once every tuple is read as a list, at any depth.
RECURSIVE SameUpToKind(_, _)
SameUpToKind(a, b) ==
    IF a.t \in {"list", "tuple"} /\ b.t \in {"list", "tuple"}
    THEN /\ Len(a.items) = Len(b.items)
         /\ \A i \in DOMAIN a.items : SameUpToKind(a.items[i], b.items[i])
    ELSE a = b

\* The step is a call of add_s, modify_s or search_s right after
\* set_return_value registered, for that operation, a value other than None
\* under a signature equal to the call's arguments up to lists and tuples.
CallAfterItsPreset ==
    /\ last.op = "set_return_value"
    /\ last.out = Return(PyNone)
    /\ last.args.items[3] # PyNone
    /\ history' # history
    /\ last'.op \in {"add_s", "modify_s", "search_s"}
    /\ last.args.items[1].s = <<last'.op>>
    /\ SameUpToKind(last.args.items[2], last'.args)

\* C21: a preset registered under a signature with lists is found by the
\* call that gives the equal signature with tuples, and the reverse, at any
\* depth: the call returns (or raises) the preset and the store is as it
\* was.
C21_PresetFoundAcrossListsAndTuples ==
    [][CallAfterItsPreset =>
          /\ last'.out = IF last.args.items[3].t = "exc"
                         THEN RaiseValue(last.args.items[3])
                         ELSE Return(last.args.items[3])
          /\ directory' = directory]_vars

\* add_s, called with a record of tuples right after its preset was
\* registered (under the record of lists), was answered by the preset.
C21_Witness ==
    /\ history = <<"set_return_value", "add_s">>
    /\ Arg(2) = RecordOfTuples
    /\ last.found
    /\ last.out = Return(PresetValue)

\* the clauses of the filter '(&(a=v)(b=w))', a, v, b and w one character
\* each: <<attribute, value>> pairs
AndClauses(f) == {<<<<f[4]>>, <<f[6]>>>>, <<<<f[9]>>, <<f[11]>>>>}

\* C22: a one-level search_s whose filter is a conjunction of clauses,
\* (&(a1=v1)(a2=v2)), with no preset, returns the direct children of base
\* whose attributes hold the value of every clause, and only those.
C22_OneLevelConjunction ==
    (OneLevelSearch /\ ArgStr(3) = FilterAnd)
    => /\ last.out.kind = "return"
       /\ ResultDNs(last.out)
             = {dn \in Keys(last.before) :
                   /\ IsDirectChild(dn, ArgStr(1))
                   /\ \A c \in AndClauses(FilterAnd) :
                         ValueStored(last.before, dn, c[1], PyStr(c[2]))}

\* C23: simple_bind_s, compare_s and search_s never change the directory
\* store, whether they succeed or fail, on an instance built empty as on a
\* seeded one.
C23_ReadOnlyOperationsKeepTheStore ==
    last.op \in {"simple_bind_s", "compare_s", "search_s"}
    => directory = last.before

\* the errors of the LDAP emulation
EmulationErrors == {"INVALID_CREDENTIALS", "NO_SUCH_OBJECT", "ALREADY_EXISTS",
                    "PresetReturnRequiredError"}

\* C24: a public operation called with no preset returns, or raises
\* INVALID_CREDENTIALS, NO_SUCH_OBJECT, ALREADY_EXISTS or
\* PresetReturnRequiredError; no other failure reaches the caller.
C24_OnlyEmulationErrors ==
    (last.op \in PublicOps /\ NoPreset)
    => \/ last.out.kind = "return"
       \/ \E e \in EmulationErrors : Raised(last.out, e)

\* C25: a preset registered with the value None takes precedence like any
\* other: the call it is registered for returns None and leaves the store
\* as it was.
C25_NonePresetAnswersTheCall ==
    ( /\ last.op \in {"initialize", "simple_bind_s", "search_s", "compare_s",
                      "add_s", "modify_s", "delete_s", "rename_s"}
      /\ last.registered
      /\ last.preset = PyNone )
    => /\ last.out = Return(PyNone)
       /\ directory = last.before

====
